---- MODULE Spec2Model ----
(***************************************************************************)
(* Model of src/misc/image.c: the image handler (image_handler_t) that     *)
(* caches one decoder and one filter and chains decode -> optional filter. *)
(*                                                                         *)
(* Spec: one action per operation: ImageRead (pf_read), ImageWrite         *)
(* (pf_write), ImageWriteUrl (pf_write_url), image_HandlerDelete,          *)
(* image_HandlerCreate, and one for the caller taking the result of a      *)
(* call.  The decoder and filter modules, the object allocator and the     *)
(* module loader are the environment: their outcomes are drawn with \E.    *)
(*                                                                         *)
(* SpecRace: ImageRead in steps, called by two threads that nothing        *)
(* serializes.                                                             *)
(*                                                                         *)
(* Objects (decoders, filters) are numbered in creation order; 0 is NULL.  *)
(* Pictures of one call are numbered by producer: 1 the first              *)
(* pf_decode_video call, 2 the second one, 3 pf_video_filter.              *)
(***************************************************************************)
EXTENDS Integers, Sequences, FiniteSets

\* ------------------------------------------------------------------ bounds
\* number of ImageRead calls on one handler
MaxCalls == 2

\* the error code of vlc_common.h that ImageWriteUrl returns
VLC_EGENERIC == -666

\* ------------------------------------------------------------ value spaces
\* video_format_t restricted to the fields image.c reads: i_chroma, i_width,
\* i_height. 0 is "unspecified"; chromas are 1, 2; codecs are 11, 12.
Fmt(c, w, h) == [chroma |-> c, w |-> w, h |-> h]
\* static es_format_t null_es_format = {0}
null_es_format == Fmt(0, 0, 0)

\* formats a decoder negotiates for a payload (fully specified): one base
\* format and one that differs from it in each field
NativeFmts == {Fmt(1, 1, 1), Fmt(2, 1, 1), Fmt(1, 2, 1), Fmt(1, 1, 2)}
\* p_fmt_out as the caller passes it: nothing specified, everything
\* specified (each native format), or only some fields
OutFmts == NativeFmts \cup {null_es_format, Fmt(2, 0, 2)}
\* p_fmt_in as the caller passes it: the codec plus an optional size hint
InFmts == {Fmt(11, 0, 0), Fmt(11, 1, 2), Fmt(12, 0, 0)}

\* p_image->p_dec == NULL
NoDec == [id |-> 0, codec |-> 0, fmt_in |-> null_es_format, fmt_out |-> null_es_format]
\* p_image->p_filter == NULL
NoFilter == [id |-> 0, fmt_in |-> null_es_format, fmt_out |-> null_es_format]

\* one entry of the call log: the operation, the object it acts on and its
\* argument. vlc_object_create: arg 1 for VLC_OBJECT_DECODER, 2 for
\* VLC_OBJECT_FILTER, obj 0 when it returns NULL. module_Need: arg 1 when a
\* module was found. msg_Err: arg 1 "out of memory", 2 "no suitable decoder
\* module". pf_decode_video: arg the block passed. video_new_buffer,
\* pf_release, pf_video_filter: arg the picture.
Ev(op, obj, arg) == [op |-> op, obj |-> obj, arg |-> arg]

\* outcomes of vlc_object_create + module_Need
CreateOutcomes == {"ok", "oom", "nomodule"}
\* what one pf_decode_video call returns, and what it does with *pp_block
DecodeOutcomes ==
    [pic : {"pic", "none", "allocfail"}, blk : {"nulled"}]
        \cup [pic : {"pic", "none"}, blk : {"kept"}]
        \cup [pic : {"pic"}, blk : {"dangling"}]
\* what pf_video_filter returns
FilterOutcomes == {"ok", "fail"}

VARIABLES
    handler,    \* "live" | "freed" | "crashed" : the image_handler_t
    p_dec,      \* p_image->p_dec   (NoDec when NULL)
    p_filter,   \* p_image->p_filter (NoFilter when NULL)
    objects,    \* objects created for this handler, by id: [kind, module, destroyed]
    calls,      \* ImageRead calls made on this handler
    codecs,     \* the input encodings those calls carried
    last,       \* record of the operation in hand (inputs, log, result)
    thread,     \* per thread: where its ImageRead call stands (unserialized callers)
    overlapped  \* an ImageRead call was entered while another was running

vars == <<handler, p_dec, p_filter, objects, calls, codecs, last, thread, overlapped>>

\* the record of "no operation yet"
NoCall ==
    [op |-> "none", fmt_in |-> null_es_format, req |-> null_es_format,
     pre_dec |-> NoDec, pre_filter |-> NoFilter,
     ev |-> <<>>, ret |-> 0, fmt_out |-> null_es_format]

\* the threads that call into one handler
Threads == {1, 2}

\* a thread that is not inside ImageRead
Idle == [pc |-> "idle", fmt_in |-> null_es_format, req |-> null_es_format, dec |-> 0, filt |-> 0]

\* memset( p_image, 0, sizeof(image_handler_t) )
Init ==
    /\ handler = "live"
    /\ p_dec = NoDec
    /\ p_filter = NoFilter
    /\ objects = <<>>
    /\ calls = 0
    /\ codecs = {}
    /\ last = NoCall
    /\ thread = [t \in Threads |-> Idle]
    /\ overlapped = FALSE

\* ------------------------------------------------------------------ objects
\* vlc_object_create: the new object gets the next id
NewObj(objs, kind) == Append(objs, [kind |-> kind, module |-> FALSE, destroyed |-> 0])
\* p_module = module_Need( ... ) succeeded on object id
SetModule(objs, id) == [objs EXCEPT ![id].module = TRUE]
\* vlc_object_destroy on object id
DestroyObj(objs, id) == [objs EXCEPT ![id].destroyed = @ + 1]

\* DeleteDecoder( p_dec )
DeleteDecoder(st, id) ==
    [st EXCEPT !.objs = DestroyObj(st.objs, id),
               !.ev = Append(st.ev, Ev("DeleteDecoder", id, 0))]

\* faulty variant: the filter object is detached but never destroyed
DeleteFilter_NoDestroy(st, id) ==
    [st EXCEPT !.ev = Append(st.ev, Ev("DeleteFilter", id, 0))]

\* DeleteFilter( p_filter )
DeleteFilter(st, id) ==
    [st EXCEPT !.objs = DestroyObj(st.objs, id),
               !.ev = Append(st.ev, Ev("DeleteFilter", id, 0))]

\* faulty variant: when no module is found the half-built decoder is returned
CreateDecoder_KeepsFailed(st, fmt, r) ==
    LET id == Len(st.objs) + 1 IN
    IF r = "oom"
    THEN [st EXCEPT !.dec = NoDec,
                    !.ev = st.ev \o <<Ev("vlc_object_create", 0, 1), Ev("msg_Err", 0, 1)>>]
    ELSE [st EXCEPT !.objs = IF r = "ok" THEN SetModule(NewObj(st.objs, "decoder"), id)
                                         ELSE NewObj(st.objs, "decoder"),
                    !.ev = st.ev \o
                           (IF r = "ok"
                            THEN <<Ev("vlc_object_create", id, 1), Ev("module_Need", id, 1)>>
                            ELSE <<Ev("vlc_object_create", id, 1), Ev("module_Need", id, 0),
                                   Ev("msg_Err", id, 2)>>),
                    !.dec = [id |-> id, codec |-> fmt.chroma,
                             fmt_in |-> fmt, fmt_out |-> null_es_format]]

\* CreateDecoder( p_this, fmt ) with the allocator/loader outcome r.
\* st.dec is the return value (NoDec for NULL).
CreateDecoder(st, fmt, r) ==
    LET id == Len(st.objs) + 1 IN
    IF r = "oom"
    THEN [st EXCEPT !.dec = NoDec,
                    !.ev = st.ev \o <<Ev("vlc_object_create", 0, 1), Ev("msg_Err", 0, 1)>>]
    ELSE LET made == [st EXCEPT !.objs = NewObj(st.objs, "decoder"),
                                !.ev = Append(st.ev, Ev("vlc_object_create", id, 1))]
         IN IF r = "nomodule"
            THEN [DeleteDecoder([made EXCEPT !.ev = made.ev \o
                                   <<Ev("module_Need", id, 0), Ev("msg_Err", id, 2)>>], id)
                    EXCEPT !.dec = NoDec]
            ELSE [made EXCEPT !.ev = Append(made.ev, Ev("module_Need", id, 1)),
                              !.objs = SetModule(made.objs, id),
                              !.dec = [id |-> id, codec |-> fmt.chroma,
                                       fmt_in |-> fmt, fmt_out |-> null_es_format]]

\* faulty variant: lines 338-339 are missing, the output side of the filter
\* stays the copy of its input side
CreateFilter_OutputIsInput(st, fmt_in, fmt_out, r) ==
    LET id == Len(st.objs) + 1 IN
    IF r = "oom"
    THEN [st EXCEPT !.filt = NoFilter, !.crash = TRUE,
                    !.ev = Append(st.ev, Ev("vlc_object_create", 0, 2))]
    ELSE LET made == [st EXCEPT !.objs = NewObj(st.objs, "filter"),
                                !.ev = Append(st.ev, Ev("vlc_object_create", id, 2))]
         IN IF r = "nomodule"
            THEN [DeleteFilter([made EXCEPT !.ev = Append(made.ev, Ev("module_Need", id, 0))], id)
                    EXCEPT !.filt = NoFilter]
            ELSE [made EXCEPT !.ev = Append(made.ev, Ev("module_Need", id, 1)),
                              !.objs = SetModule(made.objs, id),
                              !.filt = [id |-> id, fmt_in |-> fmt_in, fmt_out |-> fmt_in]]

\* CreateFilter( p_this, p_fmt_in, p_fmt_out ) with the allocator/loader outcome r.
\* The result of vlc_object_create is not tested: on NULL the stores at
\* lines 331-339 go through a null pointer and the process dies (st.crash).
CreateFilter(st, fmt_in, fmt_out, r) ==
    LET id == Len(st.objs) + 1 IN
    IF r = "oom"
    THEN [st EXCEPT !.filt = NoFilter, !.crash = TRUE,
                    !.ev = Append(st.ev, Ev("vlc_object_create", 0, 2))]
    ELSE LET made == [st EXCEPT !.objs = NewObj(st.objs, "filter"),
                                !.ev = Append(st.ev, Ev("vlc_object_create", id, 2))]
         IN IF r = "nomodule"
            THEN [DeleteFilter([made EXCEPT !.ev = Append(made.ev, Ev("module_Need", id, 0))], id)
                    EXCEPT !.filt = NoFilter]
            ELSE [made EXCEPT !.ev = Append(made.ev, Ev("module_Need", id, 1)),
                              !.objs = SetModule(made.objs, id),
                              !.filt = [id |-> id, fmt_in |-> fmt_in, fmt_out |-> fmt_out]]

\* ----------------------------------------------------------------- pictures
\* video_new_buffer( p_dec ): the decoder's buffer callback. Sets the output
\* chroma, allocates; returns 0 when vout_AllocatePicture gives no planes.
video_new_buffer(st, native, ok, pic) ==
    [st EXCEPT !.dec.fmt_out = native,
               !.ev = Append(st.ev, Ev("video_new_buffer", st.dec.id, IF ok THEN pic ELSE 0)),
               !.pic = IF ok THEN pic ELSE 0]

\* p_pic->pf_release( p_pic ), i.e. video_release_buffer
video_release_buffer(st, pic) ==
    [st EXCEPT !.ev = Append(st.ev, Ev("pf_release", 0, pic))]

\* p_dec->pf_decode_video( p_dec, &p_block ): one call of the decoder module.
\* st.blk is the caller's p_block: 1 the payload, 2 the payload after the
\* decoder freed it, 0 NULL. A NULL block decodes nothing. Otherwise the
\* module returns a picture or not (o.pic) and consumes the block, clearing
\* the caller's pointer or not, or keeps it for another call (o.blk).
\* st.pic is the return value.
pf_decode_video(st, o, native, pic) ==
    LET called == [st EXCEPT !.ev = Append(st.ev, Ev("pf_decode_video", st.dec.id, st.blk)),
                             !.pic = 0]
    IN IF st.blk = 0 THEN called
       ELSE LET out == IF o.pic = "none" THEN called
                       ELSE video_new_buffer(called, native, o.pic = "pic", pic)
            IN [out EXCEPT !.blk = CASE o.blk = "nulled" -> 0
                                     [] o.blk = "dangling" -> 2
                                     [] OTHER -> st.blk]

\* p_image->p_filter->pf_video_filter( p_filter, p_pic ): takes the picture
\* over and returns a new one (3) or NULL.
pf_video_filter(st, o) ==
    [st EXCEPT !.ev = st.ev \o <<Ev("pf_video_filter", st.filt.id, st.pic),
                                  Ev("video_new_buffer", st.filt.id, IF o = "ok" THEN 3 ELSE 0)>>,
               !.pic = IF o = "ok" THEN 3 ELSE 0]

\* ---------------------------------------------------------------- ImageRead
\* faulty variant: the whole input format is compared, not only the codec
DecoderStale_WholeFmt(dec, fmt) == dec.id # 0 /\ dec.fmt_in # fmt
\* faulty variant: the width hint is compared instead of the codec
DecoderStale_Width(dec, fmt) == dec.id # 0 /\ dec.fmt_in.w # fmt.w

\* lines 97-98: the cached decoder cannot be reused
DecoderStale(dec, fmt) == dec.id # 0 /\ dec.codec # fmt.chroma

\* faulty variant: the unspecified fields are left unspecified
ResolveFmtOut_KeepsUnspecified(req, dout) == req
\* faulty variant: the decoder's values replace the caller's
ResolveFmtOut_DecoderWins(req, dout) == dout

\* lines 121-126: fill the unspecified fields of *p_fmt_out from the decoder
ResolveFmtOut(req, dout) ==
    Fmt(IF req.chroma = 0 THEN dout.chroma ELSE req.chroma,
        IF req.w = 0 THEN dout.w ELSE req.w,
        IF req.h = 0 THEN dout.h ELSE req.h)

\* faulty variant: the picture always goes through the filter
NeedFilter_Always(dout, out) == dout.chroma # 0

\* lines 129-131: chroma conversion or resizing is needed
NeedFilter(dout, out) ==
    dout.chroma # out.chroma \/ dout.w # out.w \/ dout.h # out.h

\* faulty variant: only the filter's input side is compared
FilterStale_InputOnly(f, dout, out) ==
    /\ f.id # 0
    /\ \/ f.fmt_in.chroma # dout.chroma
       \/ f.fmt_in.w # dout.w
       \/ f.fmt_in.h # dout.h

\* faulty variant: the output height is not compared
FilterStale_NoOutHeight(f, dout, out) ==
    /\ f.id # 0
    /\ \/ f.fmt_in.chroma # dout.chroma
       \/ f.fmt_in.w # dout.w
       \/ f.fmt_in.h # dout.h
       \/ f.fmt_out.chroma # out.chroma
       \/ f.fmt_out.w # out.w

\* lines 133-142: the cached filter cannot be reused
FilterStale(f, dout, out) ==
    /\ f.id # 0
    /\ \/ f.fmt_in.chroma # dout.chroma
       \/ f.fmt_in.w # dout.w
       \/ f.fmt_in.h # dout.h
       \/ f.fmt_out.chroma # out.chroma
       \/ f.fmt_out.w # out.w
       \/ f.fmt_out.h # out.h

\* every return of ImageRead: the handler's slots, the value returned (0 is
\* NULL, -1 a call that never returned) and *p_fmt_out as the caller finds it
ReadReturn(fin, req, st, ret, fout) ==
    /\ handler' = IF st.crash THEN "crashed" ELSE "live"
    /\ p_dec' = st.dec
    /\ p_filter' = st.filt
    /\ objects' = st.objs
    /\ calls' = calls + 1
    /\ codecs' = codecs \cup {fin.chroma}
    /\ UNCHANGED <<thread, overlapped>>
    /\ last' = [op |-> "read", fmt_in |-> fin, req |-> req,
                pre_dec |-> p_dec, pre_filter |-> p_filter,
                ev |-> st.ev, ret |-> ret, fmt_out |-> fout]

\* lines 121-168: st.pic is the decoded picture
ReadConvert(fin, req, st) ==
    LET out == ResolveFmtOut(req, st.dec.fmt_out) IN
    IF NeedFilter(st.dec.fmt_out, out)
    THEN LET st1 == IF FilterStale(st.filt, st.dec.fmt_out, out)
                    THEN [DeleteFilter(st, st.filt.id) EXCEPT !.filt = NoFilter]
                    ELSE st
             Run(s) == \E o \in FilterOutcomes :
                          LET s2 == pf_video_filter(s, o)
                          IN ReadReturn(fin, req, s2, s2.pic, s2.filt.fmt_out)
         IN IF st1.filt.id = 0
            THEN \E r \in CreateOutcomes :
                    LET st2 == CreateFilter(st1, st1.dec.fmt_out, out, r) IN
                    IF st2.crash THEN ReadReturn(fin, req, st2, -1, out)
                    ELSE IF st2.filt.id = 0
                    THEN ReadReturn(fin, req, video_release_buffer(st2, st2.pic), 0, out)
                    ELSE Run(st2)
            ELSE Run(st1)
    ELSE ReadReturn(fin, req, st, st.pic, st.dec.fmt_out)

\* faulty variant: *p_fmt_out is filled from the decoder before the test of
\* the decoded picture
ReadNoImage_ResolvesFirst(fin, req, st) ==
    ReadReturn(fin, req, st, 0, ResolveFmtOut(req, st.dec.fmt_out))

\* faulty variant: a call that decoded nothing tears the decoder down
ReadNoImage_Teardown(fin, req, st) ==
    ReadReturn(fin, req, [DeleteDecoder(st, st.dec.id) EXCEPT !.dec = NoDec], 0, req)

\* lines 115-119: "no image decoded", return 0 with *p_fmt_out untouched
ReadNoImage(fin, req, st) == ReadReturn(fin, req, st, 0, req)

\* faulty variant: the result of the first decode call is not tested
ReadDecode_ConvertsAnyway(fin, req, st) ==
    \E native \in NativeFmts, o1 \in DecodeOutcomes :
        LET st1 == pf_decode_video([st EXCEPT !.blk = 1], o1, native, 1)
            Rest(s) == ReadConvert(fin, req, [s EXCEPT !.pic = st1.pic])
        IN IF st1.blk = 0
           THEN Rest(pf_decode_video(st1, o1, native, 2))
           ELSE \E p2 \in {"pic", "none"} :
                   Rest(pf_decode_video(st1, [pic |-> p2, blk |-> "nulled"], native, 2))

\* lines 111-119: the two decode calls and the test of the first result
ReadDecode(fin, req, st) ==
    \E native \in NativeFmts, o1 \in DecodeOutcomes :
        LET st1 == pf_decode_video([st EXCEPT !.blk = 1], o1, native, 1)
            Rest(s) == IF st1.pic = 0
                       THEN ReadNoImage(fin, req, s)
                       ELSE ReadConvert(fin, req, [s EXCEPT !.pic = st1.pic])
        IN IF st1.blk = 0
           THEN Rest(pf_decode_video(st1, o1, native, 2))
           ELSE \E p2 \in {"pic", "none"} :
                   Rest(pf_decode_video(st1, [pic |-> p2, blk |-> "nulled"], native, 2))

\* ImageRead( p_image, p_block, p_fmt_in, p_fmt_out )
ImageRead ==
    /\ handler = "live"
    /\ last.op = "none"
    /\ calls < MaxCalls
    /\ \E fin \in InFmts, req \in OutFmts :
          LET st0 == [dec |-> p_dec, filt |-> p_filter, objs |-> objects, ev |-> <<>>,
                      blk |-> 1, pic |-> 0, crash |-> FALSE]
              st1 == IF DecoderStale(p_dec, fin)
                     THEN [DeleteDecoder(st0, p_dec.id) EXCEPT !.dec = NoDec]
                     ELSE st0
          IN IF st1.dec.id = 0
             THEN \E r \in CreateOutcomes :
                     LET st2 == CreateDecoder(st1, fin, r) IN
                     IF st2.dec.id = 0
                     THEN ReadReturn(fin, req, st2, 0, req)
                     ELSE ReadDecode(fin, req, st2)
             ELSE ReadDecode(fin, req, st1)

\* the formats of the picture and of the requested encoding tried with the
\* two write operations, which read neither
WriteFmts == {Fmt(1, 1, 1), Fmt(2, 1, 1)}

\* ImageWrite( p_image, p_pic, p_fmt_in, p_fmt_out ): returns NULL (0), logs
\* nothing, touches nothing
ImageWrite ==
    /\ handler = "live"
    /\ last.op = "none"
    /\ \E fin \in WriteFmts, fout \in WriteFmts :
          last' = [NoCall EXCEPT !.op = "write", !.fmt_in = fin, !.req = fout,
                                 !.pre_dec = p_dec, !.pre_filter = p_filter,
                                 !.ret = 0, !.fmt_out = fout]
    /\ UNCHANGED <<handler, p_dec, p_filter, objects, calls, codecs, thread, overlapped>>

\* ImageWriteUrl( p_image, p_pic, p_fmt_in, p_fmt_out, psz_url ): returns
\* VLC_EGENERIC, logs nothing, touches nothing
ImageWriteUrl ==
    /\ handler = "live"
    /\ last.op = "none"
    /\ \E fin \in WriteFmts, fout \in WriteFmts :
          last' = [NoCall EXCEPT !.op = "write_url", !.fmt_in = fin, !.req = fout,
                                 !.pre_dec = p_dec, !.pre_filter = p_filter,
                                 !.ret = VLC_EGENERIC, !.fmt_out = fout]
    /\ UNCHANGED <<handler, p_dec, p_filter, objects, calls, codecs, thread, overlapped>>

\* faulty variant: the filter is not deleted with the handler
image_HandlerDelete_LeaksFilter ==
    /\ handler = "live"
    /\ LET st0 == [objs |-> objects, ev |-> <<>>]
           st1 == IF p_dec.id # 0 THEN DeleteDecoder(st0, p_dec.id) ELSE st0
       IN /\ objects' = st1.objs
          /\ last' = [NoCall EXCEPT !.op = "delete", !.pre_dec = p_dec,
                                    !.pre_filter = p_filter, !.ev = st1.ev]
    /\ handler' = "freed"
    /\ UNCHANGED <<p_dec, p_filter, calls, codecs, thread, overlapped>>

\* image_HandlerDelete( p_image )
image_HandlerDelete ==
    /\ handler = "live"
    /\ LET st0 == [objs |-> objects, ev |-> <<>>]
           st1 == IF p_dec.id # 0 THEN DeleteDecoder(st0, p_dec.id) ELSE st0
           st2 == IF p_filter.id # 0 THEN DeleteFilter(st1, p_filter.id) ELSE st1
       IN /\ objects' = st2.objs
          /\ last' = [NoCall EXCEPT !.op = "delete", !.pre_dec = p_dec,
                                    !.pre_filter = p_filter, !.ev = st2.ev]
    /\ handler' = "freed"
    /\ UNCHANGED <<p_dec, p_filter, calls, codecs, thread, overlapped>>

\* __image_HandlerCreate( p_this ): a fresh handler with both slots NULL.
\* The model follows one handler at a time: the log of the freed one is dropped.
image_HandlerCreate ==
    /\ handler = "freed"
    /\ handler' = "live"
    /\ p_dec' = NoDec
    /\ p_filter' = NoFilter
    /\ objects' = <<>>
    /\ calls' = 0
    /\ codecs' = {}
    /\ UNCHANGED <<thread, overlapped>>
    /\ last' = NoCall

\* The caller of ImageRead, ImageWrite or ImageWriteUrl (image_Read, image_Write
\* and image_WriteUrl in vlc_image.h) takes what the call returned before it
\* calls again: calls on one handler are sequential, and
\* the handler keeps nothing of a finished call but its two slots.
CallerTakesResult ==
    /\ handler = "live"
    /\ last.op \in {"read", "write", "write_url"}
    /\ last' = NoCall
    /\ UNCHANGED <<handler, p_dec, p_filter, objects, calls, codecs, thread, overlapped>>

Next ==
    \/ ImageRead
    \/ ImageWrite
    \/ ImageWriteUrl
    \/ CallerTakesResult
    \/ image_HandlerDelete
    \/ image_HandlerCreate

Spec == Init /\ [][Next]_vars

\* ------------------------------------------- ImageRead without serialization
\* Two threads call ImageRead on one handler and nothing orders them: the
\* function takes no lock, so another thread can run between any two of its
\* accesses to p_image->p_dec and p_image->p_filter. One action per stretch
\* of ImageRead between such accesses. thread[t].dec and thread[t].filt are
\* the engine pointers a thread has handed to a module call that has not
\* returned yet; thread[t].req is *p_fmt_out, which ImageRead fills in place.
RaceInFmts == {Fmt(11, 0, 0), Fmt(12, 0, 0)}
RaceOutFmts == {null_es_format, Fmt(2, 1, 1)}
RaceNativeFmts == {Fmt(1, 1, 1), Fmt(1, 2, 1)}
\* vlc_object_create succeeds; module_Need finds a module or not
RaceCreateOutcomes == {"ok", "nomodule"}

\* the handler as CreateDecoder, CreateFilter and the Delete functions see it
Shared == [dec |-> p_dec, filt |-> p_filter, objs |-> objects, ev |-> <<>>,
           blk |-> 1, pic |-> 0, crash |-> FALSE]

\* thread t moves on to pc
Goto(t, pc) == thread' = [thread EXCEPT ![t].pc = pc]

\* a load through a NULL or freed engine pointer: the process dies
RaceCrash ==
    /\ handler' = "crashed"
    /\ UNCHANGED <<p_dec, p_filter, objects, calls, codecs, last, thread, overlapped>>

\* a thread enters ImageRead( p_image, p_block, p_fmt_in, p_fmt_out )
RaceEnter(t) ==
    /\ handler = "live"
    /\ thread[t].pc = "idle"
    /\ calls < MaxCalls
    /\ \E fin \in RaceInFmts, req \in RaceOutFmts :
          thread' = [thread EXCEPT ![t] = [Idle EXCEPT !.pc = "check_dec",
                                                       !.fmt_in = fin, !.req = req]]
    /\ overlapped' = (overlapped \/ \E u \in Threads \ {t} : thread[u].pc # "idle")
    /\ calls' = calls + 1
    /\ UNCHANGED <<handler, p_dec, p_filter, objects, codecs, last>>

\* faulty variant: the stale decoder is deleted but stays in the slot
RaceCheckDecoder_KeepsPointer(t) ==
    /\ handler = "live"
    /\ thread[t].pc = "check_dec"
    /\ objects' = IF DecoderStale(p_dec, thread[t].fmt_in)
                  THEN DeleteDecoder(Shared, p_dec.id).objs
                  ELSE objects
    /\ Goto(t, "test_dec")
    /\ UNCHANGED <<handler, p_dec, p_filter, calls, codecs, last, overlapped>>

\* lines 96-102: delete the cached decoder if it is for another codec
RaceCheckDecoder(t) ==
    /\ handler = "live"
    /\ thread[t].pc = "check_dec"
    /\ IF DecoderStale(p_dec, thread[t].fmt_in)
       THEN /\ objects' = DeleteDecoder(Shared, p_dec.id).objs
            /\ p_dec' = NoDec
       ELSE UNCHANGED <<objects, p_dec>>
    /\ Goto(t, "test_dec")
    /\ UNCHANGED <<handler, p_filter, calls, codecs, last, overlapped>>

\* line 104: if( !p_image->p_dec )
RaceTestDecoder(t) ==
    /\ handler = "live"
    /\ thread[t].pc = "test_dec"
    /\ Goto(t, IF p_dec.id = 0 THEN "create_dec" ELSE "decode")
    /\ UNCHANGED <<handler, p_dec, p_filter, objects, calls, codecs, last, overlapped>>

\* lines 106-108: p_image->p_dec = CreateDecoder( ... ); return NULL if NULL
RaceCreateDecoder(t) ==
    /\ handler = "live"
    /\ thread[t].pc = "create_dec"
    /\ \E r \in RaceCreateOutcomes :
          LET st == CreateDecoder(Shared, thread[t].fmt_in, r) IN
          /\ objects' = st.objs
          /\ p_dec' = st.dec
          /\ Goto(t, IF st.dec.id = 0 THEN "idle" ELSE "decode")
    /\ UNCHANGED <<handler, p_filter, calls, codecs, last, overlapped>>

\* lines 111-112: load p_image->p_dec and call its pf_decode_video
RaceDecodeBegin(t) ==
    /\ handler = "live"
    /\ thread[t].pc = "decode"
    /\ IF p_dec.id = 0
       THEN RaceCrash
       ELSE /\ thread' = [thread EXCEPT ![t].pc = "decoding", ![t].dec = p_dec.id]
            /\ UNCHANGED <<handler, p_dec, p_filter, objects, calls, codecs, last, overlapped>>

\* lines 112-119: the decode calls return; the decoder has set its output
\* format (if it is still the one in the slot, the handler sees it). A decoder
\* that was destroyed meanwhile runs on freed memory: it may die or go on.
RaceDecodeEnd(t) ==
    /\ handler = "live"
    /\ thread[t].pc = "decoding"
    /\ \E native \in RaceNativeFmts, got \in BOOLEAN, dies \in BOOLEAN :
          IF dies /\ objects[thread[t].dec].destroyed > 0
          THEN RaceCrash
          ELSE /\ p_dec' = IF p_dec.id = thread[t].dec
                           THEN [p_dec EXCEPT !.fmt_out = native]
                           ELSE p_dec
               /\ thread' = [thread EXCEPT ![t].pc = IF got THEN "convert" ELSE "idle",
                                           ![t].dec = 0]
               /\ UNCHANGED <<handler, p_filter, objects, calls, codecs, last, overlapped>>

\* lines 121-131 and 166-168: fill *p_fmt_out from p_image->p_dec->fmt_out,
\* compare; without a difference write the decoder's format back and return
RaceConvert(t) ==
    /\ handler = "live"
    /\ thread[t].pc = "convert"
    /\ IF p_dec.id = 0
       THEN RaceCrash
       ELSE LET out == ResolveFmtOut(thread[t].req, p_dec.fmt_out) IN
            /\ thread' = [thread EXCEPT
                             ![t].req = out,
                             ![t].pc = IF NeedFilter(p_dec.fmt_out, out)
                                       THEN "check_filt" ELSE "idle"]
            /\ UNCHANGED <<handler, p_dec, p_filter, objects, calls, codecs, last, overlapped>>

\* lines 132-147: delete the cached filter if its six fields do not match
RaceCheckFilter(t) ==
    /\ handler = "live"
    /\ thread[t].pc = "check_filt"
    /\ IF p_filter.id # 0 /\ p_dec.id = 0
       THEN RaceCrash
       ELSE /\ IF FilterStale(p_filter, p_dec.fmt_out, thread[t].req)
               THEN /\ objects' = DeleteFilter(Shared, p_filter.id).objs
                    /\ p_filter' = NoFilter
               ELSE UNCHANGED <<objects, p_filter>>
            /\ Goto(t, "test_filt")
            /\ UNCHANGED <<handler, p_dec, calls, codecs, last, overlapped>>

\* line 149: if( !p_image->p_filter )
RaceTestFilter(t) ==
    /\ handler = "live"
    /\ thread[t].pc = "test_filt"
    /\ Goto(t, IF p_filter.id = 0 THEN "create_filt" ELSE "filter")
    /\ UNCHANGED <<handler, p_dec, p_filter, objects, calls, codecs, last, overlapped>>

\* lines 151-160: p_image->p_filter = CreateFilter( ..., &p_image->p_dec->fmt_out,
\* p_fmt_out ); release the picture and return NULL if NULL
RaceCreateFilter(t) ==
    /\ handler = "live"
    /\ thread[t].pc = "create_filt"
    /\ IF p_dec.id = 0
       THEN RaceCrash
       ELSE \E r \in RaceCreateOutcomes :
               LET st == CreateFilter(Shared, p_dec.fmt_out, thread[t].req, r) IN
               /\ objects' = st.objs
               /\ p_filter' = st.filt
               /\ Goto(t, IF st.filt.id = 0 THEN "idle" ELSE "filter")
               /\ UNCHANGED <<handler, p_dec, calls, codecs, last, overlapped>>

\* line 163: load p_image->p_filter and call its pf_video_filter
RaceFilterBegin(t) ==
    /\ handler = "live"
    /\ thread[t].pc = "filter"
    /\ IF p_filter.id = 0
       THEN RaceCrash
       ELSE /\ thread' = [thread EXCEPT ![t].pc = "filtering", ![t].filt = p_filter.id]
            /\ UNCHANGED <<handler, p_dec, p_filter, objects, calls, codecs, last, overlapped>>

\* lines 163-168: the filter returns; *p_fmt_out = p_image->p_filter->fmt_out.video
RaceFilterEnd(t) ==
    /\ handler = "live"
    /\ thread[t].pc = "filtering"
    /\ \E dies \in BOOLEAN :
          IF (dies /\ objects[thread[t].filt].destroyed > 0) \/ p_filter.id = 0
          THEN RaceCrash
          ELSE /\ thread' = [thread EXCEPT ![t].pc = "idle", ![t].filt = 0,
                                           ![t].req = p_filter.fmt_out]
               /\ UNCHANGED <<handler, p_dec, p_filter, objects, calls, codecs, last, overlapped>>

NextRace ==
    \E t \in Threads :
        \/ RaceEnter(t)
        \/ RaceCheckDecoder(t)
        \/ RaceTestDecoder(t)
        \/ RaceCreateDecoder(t)
        \/ RaceDecodeBegin(t)
        \/ RaceDecodeEnd(t)
        \/ RaceConvert(t)
        \/ RaceCheckFilter(t)
        \/ RaceTestFilter(t)
        \/ RaceCreateFilter(t)
        \/ RaceFilterBegin(t)
        \/ RaceFilterEnd(t)

SpecRace == Init /\ [][NextRace]_vars

\* ============================================================= properties
\* Reading the log of an operation record l (last, or last').
Min(S) == CHOOSE x \in S : \A y \in S : x <= y
Idx(l, op) == {i \in 1..Len(l.ev) : l.ev[i].op = op}
\* calls of vlc_object_create for kind k (1 decoder, 2 filter): attempts
CreatesOf(l, k) == {i \in Idx(l, "vlc_object_create") : l.ev[i].arg = k}
\* creations of kind k that succeeded: module_Need found a module
MadeOf(l, k) == {i \in Idx(l, "module_Need") :
                    /\ l.ev[i].arg = 1
                    /\ \E j \in 1..(i - 1) : l.ev[j] = Ev("vlc_object_create", l.ev[i].obj, k)}
\* creations of kind k for which module_Need found no module
FailedOf(l, k) == {i \in Idx(l, "module_Need") :
                      /\ l.ev[i].arg = 0
                      /\ \E j \in 1..(i - 1) : l.ev[j] = Ev("vlc_object_create", l.ev[i].obj, k)}
\* picture p was produced (by a decoder for 1 and 2, by the filter for 3)
ProducedOf(l, p) == \E i \in Idx(l, "video_new_buffer") : l.ev[i].arg = p
\* the first pf_decode_video call returned a picture
DecodedOf(l) == \E i \in Idx(l, "video_new_buffer") : l.ev[i].arg = 1
\* picture p was released by the handler / handed to the filter
ReleasesOf(l, p) == {i \in Idx(l, "pf_release") : l.ev[i].arg = p}
FilteredOf(l, p) == {i \in Idx(l, "pf_video_filter") : l.ev[i].arg = p}

LogIdx(op) == Idx(last, op)
DecoderCreates == CreatesOf(last, 1)
FilterCreates == CreatesOf(last, 2)
DecoderMade == MadeOf(last, 1)
FilterMade == MadeOf(last, 2)
Decodes == LogIdx("pf_decode_video")
Decoded == DecodedOf(last)
\* the decoders of this handler whose creation succeeded
GoodDecoders == {i \in DOMAIN objects : objects[i].kind = "decoder" /\ objects[i].module}
IsRead == last.op = "read"

\* ---------------------------------------------------------------------- C1
\* C1 as stated: while every readImage call on the handler carried the same
\* input pixel encoding, exactly one decoder has been created and none has
\* been destroyed.
C1_CreatedExactlyOnce ==
    (handler # "freed" /\ calls >= 1 /\ Cardinality(codecs) = 1) =>
        /\ Cardinality({i \in DOMAIN objects : objects[i].kind = "decoder"}) = 1
        /\ \A i \in DOMAIN objects : objects[i].kind = "decoder" => objects[i].destroyed = 0

\* C1 amended: while every readImage call carried the same input pixel
\* encoding (size hints may vary), at most one decoder has been created
\* successfully; it is the cached one and has never been destroyed; a call
\* that finds a decoder cached neither destroys nor creates a decoder.
C1_DecoderReusedForSameEncoding ==
    (handler # "freed" /\ Cardinality(codecs) = 1) =>
        /\ Cardinality(GoodDecoders) <= 1
        /\ \A i \in GoodDecoders : objects[i].destroyed = 0 /\ p_dec.id = i
        /\ GoodDecoders = {} => p_dec.id = 0
        /\ (IsRead /\ last.pre_dec.id # 0) =>
              /\ DecoderCreates = {}
              /\ LogIdx("DeleteDecoder") = {}
              /\ p_dec.id = last.pre_dec.id

\* C1 witness: a second call with the same encoding and another size hint
\* decodes with the decoder the first call created.
C1_Witness ==
    /\ calls = 2 /\ Cardinality(codecs) = 1
    /\ last.pre_dec.id # 0 /\ p_dec.id = last.pre_dec.id
    /\ last.pre_dec.fmt_in # last.fmt_in
    /\ last.ret = 1

\* ---------------------------------------------------------------------- C2
\* C2 as stated: a call whose input encoding differs from the cached
\* decoder's makes exactly one decoder destroy, then exactly one decoder
\* create, both before the decode; the old decoder decodes nothing.
C2_OneDestroyOneCreate ==
    (IsRead /\ last.pre_dec.id # 0 /\ last.pre_dec.codec # last.fmt_in.chroma) =>
        /\ Cardinality(LogIdx("DeleteDecoder")) = 1
        /\ Cardinality(DecoderMade) = 1
        /\ Decodes # {}
        /\ \A x \in LogIdx("DeleteDecoder"), c \in DecoderMade, d \in Decodes :
              x < c /\ c < d /\ last.ev[d].obj # last.pre_dec.id

\* C2 amended: such a call destroys the cached decoder exactly once, first of
\* all, then attempts exactly one decoder creation, both before any decode;
\* the old decoder decodes nothing. When the creation succeeds these are the
\* call's only decoder destroy and create and the decodes use the new
\* decoder; when it fails the slot is left empty and nothing is decoded (a
\* decoder for which no module was found is destroyed too).
C2_StaleDecoderReplaced ==
    (IsRead /\ last.pre_dec.id # 0 /\ last.pre_dec.codec # last.fmt_in.chroma) =>
        /\ {i \in LogIdx("DeleteDecoder") : last.ev[i].obj = last.pre_dec.id} = {1}
        /\ objects[last.pre_dec.id].destroyed = 1
        /\ DecoderCreates = {2}
        /\ \A d \in Decodes : d > 2 /\ last.ev[d].obj = p_dec.id
        /\ p_dec.id # last.pre_dec.id
        /\ IF DecoderMade # {}
           THEN /\ Cardinality(LogIdx("DeleteDecoder")) = 1
                /\ Cardinality(DecoderMade) = 1
                /\ p_dec.id = last.ev[2].obj
                /\ Decodes # {}
           ELSE /\ p_dec.id = 0
                /\ Decodes = {}
                /\ last.ret = 0

\* C2 witness: the second call names another codec and returns a picture.
C2_Witness ==
    /\ IsRead /\ last.pre_dec.id # 0 /\ last.pre_dec.codec # last.fmt_in.chroma
    /\ DecoderMade # {} /\ last.ret = 1

\* ---------------------------------------------------------------------- C3
\* C3 as stated: with a filter cached by a call for output format A, a call
\* that returns a picture for an output format B resolving to something else
\* than A destroys and recreates the filter exactly once, also when B is the
\* decoder's own output format.
C3_OutputChangeRecreatesFilter ==
    [][(/\ last.op = "none" /\ p_filter.id # 0
        /\ last'.op = "read" /\ last'.ret > 0
        /\ last'.fmt_out # p_filter.fmt_out)
         => /\ Cardinality(Idx(last', "DeleteFilter")) = 1
            /\ Cardinality(MadeOf(last', 2)) = 1]_vars

\* C3 amended: after a call that cached a filter for output A, a call that
\* decodes a picture and resolves its output B to something else than A
\* destroys the cached filter exactly once and then attempts exactly one
\* filter creation, provided the decoder's output differs from B; when B is
\* the decoder's output format no filter is destroyed or created and the
\* filter cached for A stays cached.
C3_FilterFollowsOutputChange ==
    [][(/\ last.op = "none" /\ p_filter.id # 0
        /\ last'.op = "read" /\ DecodedOf(last')
        /\ ResolveFmtOut(last'.req, p_dec'.fmt_out) # p_filter.fmt_out)
         => IF p_dec'.fmt_out # ResolveFmtOut(last'.req, p_dec'.fmt_out)
            THEN /\ \E x \in Idx(last', "DeleteFilter"), c \in CreatesOf(last', 2) :
                       /\ x < c
                       /\ last'.ev[x].obj = p_filter.id
                       /\ CreatesOf(last', 2) = {c}
                       /\ {y \in Idx(last', "DeleteFilter") : last'.ev[y].obj = p_filter.id} = {x}
                 /\ MadeOf(last', 2) # {} =>
                       /\ Cardinality(Idx(last', "DeleteFilter")) = 1
                       /\ p_filter'.id # p_filter.id
                       /\ p_filter'.fmt_in = p_dec'.fmt_out
                       /\ p_filter'.fmt_out = ResolveFmtOut(last'.req, p_dec'.fmt_out)
            ELSE /\ Idx(last', "DeleteFilter") = {}
                 /\ CreatesOf(last', 2) = {}
                 /\ p_filter' = p_filter
                 /\ last'.ret = 1]_vars

\* C3 witness: the second call replaced the filter of the first call because
\* the requested output changed, the decoder's output being the same.
C3_Witness ==
    /\ IsRead /\ calls = 2 /\ last.ret = 3
    /\ last.pre_filter.id # 0 /\ p_filter.id # last.pre_filter.id
    /\ last.pre_filter.fmt_in = p_filter.fmt_in
    /\ last.pre_filter.fmt_out # p_filter.fmt_out

\* C3 witness of the other case: the second call asked for the decoder's own
\* output format and left the filter of the first call cached.
C3_WitnessNative ==
    /\ IsRead /\ calls = 2 /\ last.ret = 1
    /\ last.pre_filter.id # 0 /\ p_filter = last.pre_filter
    /\ last.req = p_dec.fmt_out

\* ---------------------------------------------------------------------- C4
\* C4: when the decoder's output format equals the resolved output format, the
\* call creates no filter and invokes none, returns the decoder's picture and
\* writes the decoder's output format back.
C4_NoFilterWhenFormatsEqual ==
    (IsRead /\ Decoded /\ p_dec.fmt_out = ResolveFmtOut(last.req, p_dec.fmt_out)) =>
        /\ FilterCreates = {}
        /\ LogIdx("pf_video_filter") = {}
        /\ LogIdx("DeleteFilter") = {}
        /\ p_filter = last.pre_filter
        /\ last.ret = 1
        /\ last.fmt_out = p_dec.fmt_out

\* C4 witness: a fully specified request equal to the decoder's output, with
\* a filter cached by an earlier call.
C4_Witness ==
    /\ IsRead /\ Decoded /\ last.req = p_dec.fmt_out
    /\ last.pre_filter.id # 0 /\ last.ret = 1

\* ---------------------------------------------------------------------- C5
\* C5: in a call that needs a transform and finds a filter cached, the filter
\* is reused (no filter destroyed, none created) exactly when its six fields
\* equal the decoder's output and the resolved output; otherwise it is
\* destroyed once and one creation follows, and a transform is invoked only
\* after that creation succeeded and only on the new filter.
C5_FilterReuseIffSixFieldsMatch ==
    (IsRead /\ Decoded /\ last.pre_filter.id # 0
        /\ p_dec.fmt_out # ResolveFmtOut(last.req, p_dec.fmt_out)) =>
        LET f == last.pre_filter
            match == /\ f.fmt_in.chroma = p_dec.fmt_out.chroma
                     /\ f.fmt_in.w = p_dec.fmt_out.w
                     /\ f.fmt_in.h = p_dec.fmt_out.h
                     /\ f.fmt_out = ResolveFmtOut(last.req, p_dec.fmt_out)
            reused == LogIdx("DeleteFilter") = {} /\ FilterCreates = {}
        IN /\ reused <=> match
           /\ match => /\ p_filter = f
                       /\ \E t \in LogIdx("pf_video_filter") : last.ev[t].obj = f.id
           /\ ~match =>
                 /\ LogIdx("DeleteFilter") # {}
                 /\ {x \in LogIdx("DeleteFilter") : last.ev[x].obj = f.id} = {Min(LogIdx("DeleteFilter"))}
                 /\ Cardinality(FilterCreates) = 1
                 /\ \A c \in FilterCreates : Min(LogIdx("DeleteFilter")) < c
                 /\ \A t \in LogIdx("pf_video_filter") :
                       /\ last.ev[t].obj # f.id
                       /\ last.ev[t].obj = p_filter.id
                       /\ \A c \in FilterCreates : c < t
                       /\ \E m \in FilterMade : m < t /\ last.ev[m].obj = last.ev[t].obj

\* C5 witness: a cached filter reused by a call that needs the same transform.
C5_WitnessReuse ==
    /\ IsRead /\ Decoded /\ last.pre_filter.id # 0
    /\ p_filter = last.pre_filter /\ last.ret = 3

\* C5 witness: a cached filter differing in the output height only is
\* replaced before the transform.
C5_WitnessReplace ==
    /\ IsRead /\ Decoded /\ last.pre_filter.id # 0 /\ last.ret = 3
    /\ p_filter.id # last.pre_filter.id
    /\ p_filter.fmt_in = last.pre_filter.fmt_in
    /\ p_filter.fmt_out.chroma = last.pre_filter.fmt_out.chroma
    /\ p_filter.fmt_out.w = last.pre_filter.fmt_out.w
    /\ p_filter.fmt_out.h # last.pre_filter.fmt_out.h

\* ---------------------------------------------------------------------- C6
\* C6: when the creation of the filter fails after a picture was decoded, the
\* call releases that picture exactly once, returns no picture, hands the
\* picture to no filter and leaves the filter slot empty.
C6_PictureReleasedWhenFilterFails ==
    (IsRead /\ Decoded /\ FilterCreates # {} /\ FilterMade = {}) =>
        /\ Cardinality(ReleasesOf(last, 1)) = 1
        /\ FilteredOf(last, 1) = {}
        /\ last.ret = 0
        /\ p_filter.id = 0
        /\ handler = "live"

\* C6 restricted to the failure CreateFilter reports (no module found): the
\* picture is released exactly once, after the failed creation, and NULL is
\* returned.
C6_ReleasedWhenNoFilterModule ==
    (IsRead /\ Decoded /\ FailedOf(last, 2) # {}) =>
        /\ Cardinality(ReleasesOf(last, 1)) = 1
        /\ \A r \in ReleasesOf(last, 1), c \in FailedOf(last, 2) : c < r
        /\ FilteredOf(last, 1) = {}
        /\ last.ret = 0
        /\ p_filter.id = 0

\* ---------------------------------------------------------------------- C7
\* C7: when a call returns, each picture a decode call of it produced has been
\* returned, handed to the filter or released, exactly one of these and once.
C7_DecodedPicturesAccounted ==
    (IsRead /\ last.ret # -1) =>
        \A p \in {1, 2} :
            ProducedOf(last, p) =>
                (IF last.ret = p THEN 1 ELSE 0)
                    + Cardinality(ReleasesOf(last, p))
                    + Cardinality(FilteredOf(last, p)) = 1

\* ---------------------------------------------------------------------- C8
\* C8: within one call the payload is passed to the decoder at most once, and
\* never after the decoder has consumed it.
C8_PayloadPassedOnce ==
    IsRead =>
        /\ Cardinality({d \in Decodes : last.ev[d].arg # 0}) <= 1
        /\ \A d \in Decodes : last.ev[d].arg # 2

\* ---------------------------------------------------------------------- C9
\* C9: a call whose decode yields no picture returns NULL, reports no error
\* and leaves the decoder it decoded with cached and undestroyed.
C9_NoPictureKeepsDecoder ==
    (IsRead /\ Decodes # {} /\ ~Decoded) =>
        /\ last.ret = 0
        /\ LogIdx("msg_Err") = {}
        /\ handler = "live"
        /\ p_dec.id # 0
        /\ objects[p_dec.id].destroyed = 0
        /\ \A d \in Decodes : last.ev[d].obj = p_dec.id
        /\ \A x \in LogIdx("DeleteDecoder"), d \in Decodes : x < d
        /\ last.pre_dec.id # 0 /\ last.pre_dec.codec = last.fmt_in.chroma
              => p_dec.id = last.pre_dec.id

\* C9 witness: the second call decodes nothing with the decoder of the first.
C9_Witness ==
    /\ IsRead /\ calls = 2 /\ Decodes # {} /\ ~Decoded
    /\ p_dec.id # 0 /\ p_dec.id = last.pre_dec.id

\* --------------------------------------------------------------------- C10
\* C10: when no decoder module is found for the requested encoding, the call
\* returns NULL after reporting "no suitable decoder module", invokes no
\* decode and allocates no picture; the decoder slot is empty.
C10_NoDecoderNoDecode ==
    (IsRead /\ FailedOf(last, 1) # {}) =>
        /\ last.ret = 0
        /\ \E m \in LogIdx("msg_Err") : last.ev[m].arg = 2
        /\ Decodes = {}
        /\ LogIdx("video_new_buffer") = {}
        /\ p_dec.id = 0

\* C10 witness: a call that had to replace the cached decoder finds no module.
C10_Witness ==
    /\ IsRead /\ FailedOf(last, 1) # {} /\ last.pre_dec.id # 0 /\ last.ret = 0

\* --------------------------------------------------------------------- C11
\* C11: a call in which the creation of a decoder or of a filter fails
\* returns NULL at once (no decode after a failed decoder, no conversion after
\* a failed filter), leaves the corresponding slot NULL, and every object the
\* failed creation allocated has been destroyed exactly once.
C11_CreationFailureLeavesSlotEmpty ==
    IsRead =>
        /\ (DecoderCreates # {} /\ DecoderMade = {}) =>
              /\ handler = "live"
              /\ last.ret = 0
              /\ p_dec.id = 0
              /\ Decodes = {}
              /\ \A c \in DecoderCreates :
                    last.ev[c].obj # 0 => objects[last.ev[c].obj].destroyed = 1
        /\ (FilterCreates # {} /\ FilterMade = {}) =>
              /\ handler = "live"
              /\ last.ret = 0
              /\ p_filter.id = 0
              /\ LogIdx("pf_video_filter") = {}
              /\ \A c \in FilterCreates :
                    last.ev[c].obj # 0 => objects[last.ev[c].obj].destroyed = 1

\* C11 for the failures the two Create functions report themselves (decoder:
\* allocation or module; filter: module only).
C11_ReportedFailureLeavesSlotEmpty ==
    IsRead =>
        /\ (DecoderCreates # {} /\ DecoderMade = {}) =>
              /\ last.ret = 0 /\ p_dec.id = 0 /\ Decodes = {}
              /\ \A c \in DecoderCreates :
                    last.ev[c].obj # 0 => objects[last.ev[c].obj].destroyed = 1
        /\ FailedOf(last, 2) # {} =>
              /\ last.ret = 0 /\ p_filter.id = 0
              /\ LogIdx("pf_video_filter") = {}
              /\ \A c \in FailedOf(last, 2) : objects[last.ev[c].obj].destroyed = 1

\* --------------------------------------------------------------------- C12
\* C12: when the caller leaves chroma, width and height of *p_fmt_out all
\* unspecified and the decode yields a picture, the format written back is
\* exactly the decoder's output format, the decoded picture is returned and no
\* filter is created, destroyed or invoked.
C12_UnspecifiedOutputIsDecoderOutput ==
    (IsRead /\ last.req = null_es_format /\ Decoded) =>
        /\ last.ret = 1
        /\ last.fmt_out = p_dec.fmt_out
        /\ last.fmt_out \in NativeFmts
        /\ LogIdx("pf_video_filter") = {}
        /\ FilterCreates = {}
        /\ LogIdx("DeleteFilter") = {}
        /\ p_filter = last.pre_filter

\* C12 witness: such a call on a handler that holds a filter from an earlier
\* call; the decoder's output is not the default one.
C12_Witness ==
    /\ IsRead /\ last.req = null_es_format /\ Decoded
    /\ last.pre_filter.id # 0
    /\ last.fmt_out = Fmt(1, 2, 1)

\* --------------------------------------------------------------------- C13
\* C13: of chroma, width and height of *p_fmt_out, a field the caller set
\* (non-zero) holds the caller's value after a call that returned a picture,
\* and a field the caller left zero holds the decoder's value.
C13_CallerFieldsWin ==
    (IsRead /\ last.ret > 0) =>
        /\ last.fmt_out.chroma =
              (IF last.req.chroma # 0 THEN last.req.chroma ELSE p_dec.fmt_out.chroma)
        /\ last.fmt_out.w = (IF last.req.w # 0 THEN last.req.w ELSE p_dec.fmt_out.w)
        /\ last.fmt_out.h = (IF last.req.h # 0 THEN last.req.h ELSE p_dec.fmt_out.h)

\* C13 witness: the caller sets chroma and height, leaves the width, and the
\* decoder's output differs in both fields the caller set; the picture comes
\* from the filter.
C13_Witness ==
    /\ IsRead /\ last.ret = 3
    /\ last.req = Fmt(2, 0, 2)
    /\ p_dec.fmt_out = Fmt(1, 1, 1)
    /\ last.fmt_out = Fmt(2, 1, 2)

\* C13 witness without a filter: the decoder's output already has the values
\* the caller set.
C13_WitnessNoFilter ==
    /\ IsRead /\ last.ret = 1
    /\ last.req = Fmt(1, 2, 1)
    /\ p_dec.fmt_out = Fmt(1, 2, 1)

\* --------------------------------------------------------------------- C14
\* C14: in a call that invokes the filter, the filter invoked is the one in
\* the slot, its input format is the decoder's output format, its output
\* format is the requested format with the unspecified fields taken from the
\* decoder, that format is the one written back, and at most one filter was
\* created.
C14_FilterFormatsMatchPipeline ==
    (IsRead /\ LogIdx("pf_video_filter") # {}) =>
        /\ \A f \in LogIdx("pf_video_filter") : last.ev[f].obj = p_filter.id
        /\ p_filter.id # 0
        /\ p_filter.fmt_in = p_dec.fmt_out
        /\ p_filter.fmt_out.chroma =
              (IF last.req.chroma # 0 THEN last.req.chroma ELSE p_dec.fmt_out.chroma)
        /\ p_filter.fmt_out.w = (IF last.req.w # 0 THEN last.req.w ELSE p_dec.fmt_out.w)
        /\ p_filter.fmt_out.h = (IF last.req.h # 0 THEN last.req.h ELSE p_dec.fmt_out.h)
        /\ last.fmt_out = p_filter.fmt_out
        /\ Cardinality(FilterCreates) <= 1
        /\ FilterCreates = {} => p_filter = last.pre_filter

\* C14 witness: the filter is created once in this call, for a decoder output
\* that differs from the request in chroma and height, and returns a picture.
C14_Witness ==
    /\ IsRead /\ last.ret = 3
    /\ Cardinality(FilterMade) = 1
    /\ p_filter.fmt_in = Fmt(1, 1, 1)
    /\ p_filter.fmt_out = Fmt(2, 1, 2)
    /\ last.fmt_out = Fmt(2, 1, 2)

\* C14 witness: the filter of an earlier call is invoked again.
C14_WitnessReuse ==
    /\ IsRead /\ LogIdx("pf_video_filter") # {} /\ FilterCreates = {}
    /\ last.pre_filter.id # 0

\* --------------------------------------------------------------------- C15
\* C15: once image_HandlerDelete has run, every decoder and filter the handler
\* created has been destroyed exactly once; image_HandlerDelete itself destroys
\* exactly the engines in the two slots, so nothing when both are NULL.
C15_DeleteDestroysAllOnce ==
    handler = "freed" =>
        /\ last.op = "delete"
        /\ \A i \in DOMAIN objects : objects[i].destroyed = 1
        /\ Cardinality(LogIdx("DeleteDecoder")) = (IF last.pre_dec.id # 0 THEN 1 ELSE 0)
        /\ Cardinality(LogIdx("DeleteFilter")) = (IF last.pre_filter.id # 0 THEN 1 ELSE 0)
        /\ Len(last.ev) = Cardinality(LogIdx("DeleteDecoder")) + Cardinality(LogIdx("DeleteFilter"))

\* C15 witness: the handler is deleted with both slots set after an engine
\* had been replaced in an earlier call.
C15_Witness ==
    /\ handler = "freed"
    /\ last.pre_dec.id # 0 /\ last.pre_filter.id # 0
    /\ Len(objects) >= 3
    /\ \E i \in DOMAIN objects : objects[i].module /\ i \notin {last.pre_dec.id, last.pre_filter.id}

\* C15 witness: the handler is deleted with both slots NULL after a call.
C15_WitnessEmpty ==
    /\ handler = "freed" /\ calls >= 1
    /\ last.pre_dec.id = 0 /\ last.pre_filter.id = 0 /\ last.ev = <<>>

\* --------------------------------------------------------------------- C16
\* C16: every call of ImageWrite and of ImageWriteUrl tells its caller that
\* the operation is not implemented: it returns an error code or reports an
\* error, and never just a NULL result.
C16_WritesSurfaceNotImplemented ==
    last.op \in {"write", "write_url"} =>
        \/ last.ret # 0
        \/ LogIdx("msg_Err") # {}

\* C16 for ImageWriteUrl alone: every call returns the error code VLC_EGENERIC
\* and leaves the handler as it was.
C16_WriteUrlReturnsError ==
    last.op = "write_url" =>
        /\ last.ret = VLC_EGENERIC
        /\ p_dec = last.pre_dec /\ p_filter = last.pre_filter

\* --------------------------------------------------------------------- C17
\* a module call of some thread is running on an engine that was destroyed
UsesDestroyed ==
    \E t \in Threads :
        \/ thread[t].pc = "decoding" /\ objects[thread[t].dec].destroyed > 0
        \/ thread[t].pc = "filtering" /\ objects[thread[t].filt].destroyed > 0
\* the engine a thread has settled on is no longer the one in the slot: the
\* slot was cleared, or holds a decoder for another codec
SlotPulled ==
    \E t \in Threads :
        \/ /\ thread[t].pc \in {"decode", "convert", "check_filt", "create_filt"}
           /\ p_dec.id = 0 \/ p_dec.codec # thread[t].fmt_in.chroma
        \/ thread[t].pc \in {"filter", "filtering"} /\ p_filter.id = 0
\* an engine exists that no slot points to: nothing will ever destroy it
LostEngine ==
    \E i \in DOMAIN objects :
        objects[i].destroyed = 0 /\ i \notin {p_dec.id, p_filter.id}

\* C17, serialized part: as long as no ImageRead call was entered while
\* another was running, no call runs on a destroyed engine, no call finds the
\* slot it settled cleared or refilled, no engine is lost and the process
\* is alive.
C17_SerializedCallsAreSafe ==
    ~overlapped =>
        /\ ~UsesDestroyed
        /\ ~SlotPulled
        /\ ~LostEngine
        /\ handler = "live"

\* C17, unserialized part (reachability): with overlapping calls, a decode
\* call is running on a decoder that the other call has destroyed.
C17_Witness ==
    /\ overlapped
    /\ \E t \in Threads :
          /\ thread[t].pc = "decoding"
          /\ objects[thread[t].dec].destroyed > 0
          /\ \E u \in Threads \ {t} : thread[u].pc \notin {"idle", "check_dec"}

\* C17: with overlapping calls, both created a decoder for the empty slot and
\* the first one is lost.
C17_WitnessLost ==
    /\ overlapped /\ LostEngine
    /\ Cardinality({i \in DOMAIN objects : objects[i].kind = "decoder"
                                           /\ objects[i].destroyed = 0}) = 2

\* C17: with overlapping calls, the filter is running while the other call has
\* destroyed it.
C17_WitnessFilter ==
    /\ overlapped
    /\ \E t \in Threads : thread[t].pc = "filtering" /\ objects[thread[t].filt].destroyed > 0

\* C17, serialized calls exercised: the second of two calls that did not
\* overlap decodes after the decoder of the first was replaced.
C17_WitnessSerialized ==
    /\ ~overlapped /\ calls = 2
    /\ \E t \in Threads : thread[t].pc = "decoding"
    /\ \E i \in DOMAIN objects : objects[i].kind = "decoder" /\ objects[i].destroyed = 1

\* --------------------------------------------------------------------- C18
\* C18: between the calls on a handler, every decoder or filter that exists
\* (created, not destroyed) is fully built and is the one its slot points to,
\* so at most one of each exists; a slot that is not NULL points to an
\* engine of its kind that exists; no engine was destroyed twice; after
\* image_HandlerDelete none exists.
C18_LiveEnginesAreTheSlots ==
    /\ \A i \in DOMAIN objects :
          /\ objects[i].destroyed <= 1
          /\ objects[i].destroyed = 0 =>
                /\ handler # "freed"
                /\ objects[i].module
                /\ i = (IF objects[i].kind = "decoder" THEN p_dec.id ELSE p_filter.id)
    /\ handler # "freed" =>
          /\ p_dec.id # 0 =>
                objects[p_dec.id].kind = "decoder" /\ objects[p_dec.id].destroyed = 0
          /\ p_filter.id # 0 =>
                objects[p_filter.id].kind = "filter" /\ objects[p_filter.id].destroyed = 0

\* C18 witness: both slots are set after a call that replaced an engine.
C18_Witness ==
    /\ handler = "live" /\ IsRead /\ calls = 2
    /\ p_dec.id # 0 /\ p_filter.id # 0
    /\ \E i \in DOMAIN objects : objects[i].module /\ objects[i].destroyed = 1

\* C18 witness: a call whose filter creation found no module, on a handler
\* that held a filter: the old filter and the half-built one are both gone.
C18_WitnessFailure ==
    /\ handler = "live" /\ IsRead /\ FailedOf(last, 2) # {}
    /\ last.pre_filter.id # 0 /\ p_filter.id = 0

\* --------------------------------------------------------------------- C19
\* C19: a call that returns before a picture was decoded (no decoder could be
\* created, or the decode gave no picture) returns NULL, leaves *p_fmt_out as
\* the caller passed it and leaves the filter slot and its filter untouched.
C19_EarlyReturnLeavesOutputFormat ==
    (IsRead /\ ~Decoded) =>
        /\ last.ret = 0
        /\ last.fmt_out = last.req
        /\ p_filter = last.pre_filter
        /\ FilterCreates = {}
        /\ LogIdx("DeleteFilter") = {}
        /\ LogIdx("pf_video_filter") = {}
        /\ p_filter.id # 0 => objects[p_filter.id].destroyed = 0

\* C19 witness: no picture from a decoder that has an output format, the
\* caller left the width unspecified and the handler holds a filter.
C19_Witness ==
    /\ IsRead /\ ~Decoded /\ Decodes # {}
    /\ last.req = Fmt(2, 0, 2)
    /\ p_dec.fmt_out \in NativeFmts
    /\ last.pre_filter.id # 0

\* C19 witness: the decoder could not be created, the handler holds a filter.
C19_WitnessNoDecoder ==
    /\ IsRead /\ DecoderCreates # {} /\ DecoderMade = {}
    /\ last.req = null_es_format
    /\ last.pre_filter.id # 0

\* --------------------------------------------------------------------- C20
\* C20: within one call, (a) every decode call goes to a fully built decoder
\* that is in the slot and was in it, or was created, before the decode and is
\* not deleted; (b) a filter is created, deleted or invoked only after all
\* decode calls, only if the first of them gave a picture, and only if a field
\* the caller specified differs from the decoder's output; (c) the filter is
\* invoked at most once, after any deletion and creation of a filter.
C20_PipelineOrder ==
    IsRead =>
        LET decodes == Decodes
            made == DecoderMade
            deleted == LogIdx("DeleteDecoder")
            invoked == LogIdx("pf_video_filter")
            steps == FilterCreates \cup LogIdx("DeleteFilter") \cup invoked
        IN /\ \A d \in decodes :
                 /\ last.ev[d].obj # 0
                 /\ last.ev[d].obj = p_dec.id
                 /\ objects[p_dec.id].module
                 /\ \/ last.pre_dec.id = p_dec.id
                    \/ \E m \in made : m < d /\ last.ev[m].obj = p_dec.id
                 /\ \A x \in deleted : x < d /\ last.ev[x].obj # p_dec.id
           /\ steps # {} =>
                 /\ Decoded
                 /\ \A s \in steps, d \in decodes : d < s
                 /\ \/ last.req.chroma # 0 /\ last.req.chroma # p_dec.fmt_out.chroma
                    \/ last.req.w # 0 /\ last.req.w # p_dec.fmt_out.w
                    \/ last.req.h # 0 /\ last.req.h # p_dec.fmt_out.h
           /\ Cardinality(invoked) <= 1
           /\ \A f \in invoked, s \in steps : s <= f

\* C20 witness: one call goes through every step: the cached decoder and the
\* cached filter are both replaced and the new filter is invoked.
C20_Witness ==
    /\ IsRead /\ last.ret = 3
    /\ LogIdx("DeleteDecoder") # {} /\ DecoderMade # {}
    /\ LogIdx("DeleteFilter") # {} /\ FilterMade # {}
    /\ LogIdx("pf_video_filter") # {}

====
